---------------------------- MODULE Spec2Model ----------------------------
(***************************************************************************)
(* A model of the particle simulation: plane_attractor.py (PlaneAttractor), *)
(* particle_system.py (Particle, ParticleSystem) and main.py                *)
(* (ParticleSimulation and the GLUT callbacks).                             *)
(*                                                                          *)
(* Numbers.  Every float of the program is a fixed-point integer counted in *)
(* thousandths (FP): seconds are milliseconds, 0.5 is 500, 8.0 is 8000.     *)
(* A product or quotient of two such numbers is rescaled and rounded down.  *)
(* The one exception is the alpha channel, kept as the exact fraction       *)
(* lifetime / max_lifetime (a record [n, d]), so that rounding never turns  *)
(* a small positive ratio into 0.                                           *)
(***************************************************************************)
EXTENDS Integers, Sequences, FiniteSets, TLC

VARIABLES
    particle_count,    \* ParticleSimulation.particle_count
    trail_length,      \* ParticleSimulation.trail_length
    paused,            \* ParticleSimulation.paused
    attractor_active,  \* ParticleSimulation.attractor_active
    particle_system,   \* the ParticleSystem object (a record of its fields)
    attractor,         \* the PlaneAttractor object (a record of its fields)
    last_time,         \* main.py's global last_time (ms)
    rng,               \* state of the `random` module's generator
    next_id,           \* identity the next constructed Particle object gets
    call,              \* the last call made: its name, arguments and result
    calls              \* number of calls made so far

vars == <<particle_count, trail_length, paused, attractor_active,
          particle_system, attractor, last_time, rng, next_id, call, calls>>

---------------------------------------------------------------------------
(* Bounds of the model.                                                     *)

\* callbacks explored from the initial state of the application
MaxCalls == 2
\* calls explored from the initial state of a ParticleSystem on its own
MaxSteps == 3
\* frames of 50 ms explored when only idle() runs
MaxFrames == 75
\* callbacks explored when only idle(), reset and the arrow keys run
MaxPoolCalls == 4
\* callbacks explored when idle() and every key that acts on the
\* simulation run
MaxControlCalls == 4
\* calls explored when change_particle_count is called with any delta
MaxCountCalls == 3
\* calls explored when change_trail_length is called with any delta
MaxTrailCalls == 4
\* callbacks explored when only idle() and the pause key run
MaxPauseCalls == 5
\* calls explored from the initial state of a Particle on its own
MaxParticleCalls == 4
\* reset_trail(max_length) is called with max_length in 0..MaxLength
MaxLength == 3
\* seeds the random generator of the other specifications may start from
MaxSeed == 3
\* ParticleSystem(count=...) of the system-level harness: 1..MaxCount
MaxCount == 2
\* ParticleSystem(trail_length=...) of the harnesses: 1..MaxTrailArg
MaxTrailArg == 2

---------------------------------------------------------------------------
(* Fixed-point arithmetic.                                                  *)

\* 1.0
FP == 1000

\* numpy's nan, as get_force can produce it (0.0 / 0)
NaN == -999999999

Abs(x) == IF x < 0 THEN -x ELSE x

Min(a, b) == IF a < b THEN a ELSE b

Max(a, b) == IF a > b THEN a ELSE b

IsNaN(x) == x = NaN

\* a + b, a - b, a * b on floats; nan propagates
FAdd(a, b) == IF IsNaN(a) \/ IsNaN(b) THEN NaN ELSE a + b

FSub(a, b) == IF IsNaN(a) \/ IsNaN(b) THEN NaN ELSE a - b

\* (a * b) \div FP, computed in two parts so that the product stays within
\* the integers TLC can hold
FMul(a, b) ==
    IF IsNaN(a) \/ IsNaN(b)
    THEN NaN
    ELSE a * (b \div FP) + (a * (b % FP)) \div FP

\* a / b on Python floats (b is never 0 where the program uses it)
FDiv(a, b) == (a * FP) \div b

\* a / b where a is a numpy scalar: dividing by zero does not raise; 0 / 0 is
\* nan.  (x / 0 with x # 0 is inf; get_force divides only when abs(distance)
\* <= range, so with range = 0 the numerator is 0.)
NpDiv(a, b) == IF IsNaN(a) \/ IsNaN(b) \/ b = 0 THEN NaN ELSE (a * FP) \div b

\* np.sign
Sign(x) == IF x > 0 THEN 1 ELSE IF x < 0 THEN -1 ELSE 0

\* Newton's iteration for the integer square root of n > 0, from x >= sqrt(n)
RECURSIVE Newton(_, _)
Newton(n, x) ==
    LET y == (x + n \div x) \div 2
    IN  IF y >= x THEN x ELSE Newton(n, y)

\* the integer square root of n, known to lie in 0..hi
Isqrt(n, hi) == IF n = 0 THEN 0 ELSE Newton(n, hi)

---------------------------------------------------------------------------
(* 3D vectors (np.array of three floats).                                   *)

Zero3 == <<0, 0, 0>>

VAdd(u, v) == <<FAdd(u[1], v[1]), FAdd(u[2], v[2]), FAdd(u[3], v[3])>>

\* vector * scalar
VScale(v, k) == <<FMul(v[1], k), FMul(v[2], k), FMul(v[3], k)>>

\* np.dot
Dot(u, v) == FMul(u[1], v[1]) + FMul(u[2], v[2]) + FMul(u[3], v[3])

\* np.linalg.norm of a vector with one non-zero component or a Pythagorean one
Norm(v) == Isqrt(v[1] * v[1] + v[2] * v[2] + v[3] * v[3],
                 Abs(v[1]) + Abs(v[2]) + Abs(v[3]))

---------------------------------------------------------------------------
(* plane_attractor.py                                                       *)

\* Python's None
None == [type |-> "NoneType"]

\* PlaneAttractor.__init__(position, normal, strength, range)
PlaneAttractor(position, normal, strength, range) ==
    LET norm == Norm(normal)
        unit == <<NpDiv(normal[1], norm), NpDiv(normal[2], norm),
                  NpDiv(normal[3], norm)>>
    IN  [type     |-> "PlaneAttractor",
         position |-> position,
         normal   |-> unit,
         strength |-> strength,
         range    |-> range,
         A        |-> unit[1],
         B        |-> unit[2],
         C        |-> unit[3],
         D        |-> -Dot(unit, position)]

\* the signed distance get_force computes from the plane equation
Distance(self, position) ==
    FMul(self.A, position[1]) + FMul(self.B, position[2])
        + FMul(self.C, position[3]) + self.D

\* get_force with the direction's sign dropped: the force pushes away from
\* the plane
get_force_repelling(self, position) ==
    LET distance        == Distance(self, position)
        force_magnitude == FMul(self.strength,
                                FSub(FP, NpDiv(Abs(distance), self.range)))
        force_direction == VScale(self.normal, Sign(distance) * FP)
    IN  IF Abs(distance) > self.range
        THEN Zero3
        ELSE VScale(force_direction, force_magnitude)

\* PlaneAttractor.get_force(position)
get_force(self, position) ==
    LET distance        == Distance(self, position)
        force_magnitude == FMul(self.strength,
                                FSub(FP, NpDiv(Abs(distance), self.range)))
        force_direction == VScale(self.normal, -Sign(distance) * FP)
    IN  IF Abs(distance) > self.range
        THEN Zero3
        ELSE VScale(force_direction, force_magnitude)

---------------------------------------------------------------------------
(* particle_system.py: Particle                                             *)

\* Particle.__init__; id is the identity of the new object.  color is
\* [r, g, b, alpha] with alpha the exact fraction n / d.
Particle(id, position, velocity, size, color, life, max_life) ==
    [id           |-> id,
     position     |-> position,
     velocity     |-> velocity,
     size         |-> size,
     color        |-> color,
     lifetime     |-> life,
     max_lifetime |-> max_life,
     trail        |-> <<position>>]

\* the velocity Particle.update leaves: the attractor's force is applied
\* only when an attractor is passed
UpdatedVelocity(self, dt, field) ==
    IF field.type # "NoneType"
    THEN VAdd(self.velocity, VScale(get_force(field, self.position), dt))
    ELSE self.velocity

\* life_ratio = self.lifetime / self.max_lifetime
LifeRatio(life, max_life) == [n |-> life, d |-> max_life]

\* Particle.update with the alpha computed before the lifetime is decreased
ParticleUpdate_stale_alpha(self, dt, field) ==
    LET velocity == UpdatedVelocity(self, dt, field)
        position == VAdd(self.position, VScale(velocity, dt))
    IN  [self EXCEPT !.velocity = velocity,
                     !.position = position,
                     !.trail    = Append(self.trail, position),
                     !.lifetime = self.lifetime - dt,
                     !.color    = [self.color EXCEPT
                                     ![4] = LifeRatio(self.lifetime,
                                                      self.max_lifetime)]]

\* Particle.update with the time step added to the lifetime
ParticleUpdate_growing(self, dt, field) ==
    LET velocity == UpdatedVelocity(self, dt, field)
        position == VAdd(self.position, VScale(velocity, dt))
        lifetime == self.lifetime + dt
    IN  [self EXCEPT !.velocity = velocity,
                     !.position = position,
                     !.trail    = Append(self.trail, position),
                     !.lifetime = lifetime,
                     !.color    = [self.color EXCEPT
                                     ![4] = LifeRatio(lifetime, self.max_lifetime)]]

\* Particle.update(dt, attractor): the particle after the call
ParticleUpdate(self, dt, field) ==
    LET velocity == UpdatedVelocity(self, dt, field)
        position == VAdd(self.position, VScale(velocity, dt))
        lifetime == self.lifetime - dt
    IN  [self EXCEPT !.velocity = velocity,
                     !.position = position,
                     !.trail    = Append(self.trail, position),
                     !.lifetime = lifetime,
                     !.color    = [self.color EXCEPT
                                     ![4] = LifeRatio(lifetime, self.max_lifetime)]]

\* alive down to and including lifetime 0
Alive_at_zero(self) == self.lifetime >= 0

\* Particle.update's return value, read off the updated particle
Alive(self) == self.lifetime > 0

\* a slice that keeps the first k elements instead: seq[:k] for k > 0
SliceLast_first(seq, k) == SubSeq(seq, 1, Min(k, Len(seq)))

\* the Python slice seq[-k:]: the last k elements for k > 0 (all of them
\* when k exceeds the length), the whole list for k = 0 (-0 is 0), and the
\* list without its first -k elements for k < 0
SliceLast(seq, k) ==
    LET n     == Len(seq)
        start == IF k > 0 THEN Max(n - k, 0) ELSE Min(-k, n)
    IN  SubSeq(seq, start + 1, n)

\* reset_trail that never trims
reset_trail_noop(self, max_length) == self

\* Particle.reset_trail(max_length)
reset_trail(self, max_length) ==
    IF Len(self.trail) > max_length
    THEN [self EXCEPT !.trail = SliceLast(self.trail, max_length)]
    ELSE self

---------------------------------------------------------------------------
(* The `random` module: a deterministic generator whose state is seeded     *)
(* from outside the program.  The model's generator is counter-based: the   *)
(* state is the number of draws made since the seed, and random() hashes    *)
(* it onto the grid 0, 1/8, ..., 7/8 of [0, 1).                             *)

\* random.random() drawn in generator state s
Random(s) == ((((s % 4096) * 2531) % 4096) \div 512) * 125

\* random.uniform(a, b) drawn in generator state s: a + (b - a) * random()
uniform(a, b, s) == a + FMul(b - a, Random(s))

\* 2 * math.pi
TwoPi == 6283

CosTable == <<1000, 707, 0, -707, -1000, -707, 0, 707>>

SinTable == <<0, 707, 1000, 707, 0, -707, -1000, -707>>

\* the eighth of a turn nearest to angle (the angles drawn are multiples of
\* 2 pi / 8 up to rounding)
Octant(angle) == ((angle * 8 + TwoPi \div 2) \div TwoPi) % 8

\* math.cos, math.sin
cos(angle) == CosTable[Octant(angle) + 1]

sin(angle) == SinTable[Octant(angle) + 1]

---------------------------------------------------------------------------
(* particle_system.py: ParticleSystem                                       *)

\* the property ranges ParticleSystem.__init__ sets
min_size == 50

max_size == 150

min_speed == 500

max_speed == 2000

min_lifetime == 3000

max_lifetime == 8000

\* draws of random.uniform one create_particle call makes
DrawsPerParticle == 8

\* alpha = 1.0, as a fraction
FullAlpha == [n |-> FP, d |-> FP]

\* ParticleSystem.create_particle(), drawing from generator state s; the
\* new Particle object gets identity id
create_particle(self, s, id) ==
    LET angle    == uniform(0, TwoPi, s)
        height   == uniform(FDiv(-self.emitter_height, 2 * FP),
                            FDiv(self.emitter_height, 2 * FP), s + 1)
        position == <<FMul(self.emitter_radius, cos(angle)),
                      height,
                      FMul(self.emitter_radius, sin(angle))>>
        normal   == <<cos(angle), 0, sin(angle)>>
        speed    == uniform(min_speed, max_speed, s + 2)
        velocity == VScale(normal, speed)
        size     == uniform(min_size, max_size, s + 3)
        color    == <<uniform(300, 1000, s + 4),
                      uniform(300, 1000, s + 5),
                      uniform(300, 1000, s + 6),
                      FullAlpha>>
        life     == uniform(min_lifetime, max_lifetime, s + 7)
    IN  Particle(id, position, velocity, size, color, life, life)

\* ParticleSystem.reset(): count fresh particles.  The result holds the
\* object, the generator state and the next object identity after the call.
reset(self, s, id) ==
    [self    |-> [self EXCEPT !.particles =
                     [i \in 1..self.count |->
                         create_particle(self, s + DrawsPerParticle * (i - 1),
                                         id + (i - 1))]],
     rng     |-> s + DrawsPerParticle * self.count,
     next_id |-> id + self.count]

\* ParticleSystem.__init__(count, trail_length, emitter_radius, emitter_height)
ParticleSystem(count, trail_len, emitter_radius, emitter_height, s, id) ==
    reset([count          |-> count,
           trail_length   |-> trail_len,
           emitter_radius |-> emitter_radius,
           emitter_height |-> emitter_height,
           particles      |-> <<>>], s, id)

\* ParticleSystem.update that drops the expired particles and creates none
update_dropping(self, dt, field, s, id) ==
    LET n       == Len(self.particles)
        updated == [i \in 1..n |-> ParticleUpdate(self.particles[i], dt, field)]
        trimmed == [i \in 1..n |-> reset_trail(updated[i], self.trail_length)]
    IN  [self    |-> [self EXCEPT !.particles = SelectSeq(trimmed, Alive)],
         rng     |-> s,
         next_id |-> id]

\* ParticleSystem.update(dt, attractor).  The loop visits the particles in
\* order: a particle still alive after Particle.update has its trail trimmed
\* and is kept; an expired one is replaced at its place by a new particle.
\* The k-th expired particle of the pass (k from 0) gets the k-th
\* create_particle() call of the pass, hence its draws and its identity.
update(self, dt, field, s, id) ==
    LET n       == Len(self.particles)
        updated == [i \in 1..n |-> ParticleUpdate(self.particles[i], dt, field)]
        expired == {i \in 1..n : ~Alive(updated[i])}
        k(i)    == Cardinality({j \in expired : j < i})
        alive_particles ==
            [i \in 1..n |->
                IF Alive(updated[i])
                THEN reset_trail(updated[i], self.trail_length)
                ELSE create_particle(self, s + DrawsPerParticle * k(i), id + k(i))]
    IN  [self    |-> [self EXCEPT !.particles = alive_particles],
         rng     |-> s + DrawsPerParticle * Cardinality(expired),
         next_id |-> id + Cardinality(expired)]

---------------------------------------------------------------------------
(* main.py: ParticleSimulation and the GLUT callbacks                       *)

\* ParticleSimulation.__init__: the particle count and trail length limits
min_particles == 50

max_particles == 500

min_trail_length == 1

max_trail_length == 10

\* the record of the last call: its name, the time step and force field it
\* passed to the particle system (if any), its other argument, its result
Call(op, dt, field, arg, result) ==
    [op |-> op, dt |-> dt, field |-> field, arg |-> arg, result |-> result]

NoCall == Call("none", 0, None, 0, 0)

\* ParticleSimulation.__init__ and main(): the simulation as constructed,
\* the generator seeded with seed
SimulationInit(seed) ==
    LET made == ParticleSystem(200, 4, 2000, 4000, seed, 1)
    IN  /\ particle_count = 200
        /\ trail_length = 4
        /\ particle_system = made.self
        /\ rng = made.rng
        /\ next_id = made.next_id
        /\ attractor = PlaneAttractor(<<0, -5000, 0>>, <<0, 1000, 0>>, 500, 8000)
        /\ paused = FALSE
        /\ attractor_active = TRUE
        /\ last_time = 0

\* change_particle_count without the clamp to the limits
change_particle_count_unclamped(delta) ==
    LET count == particle_count + delta
        made  == ParticleSystem(count, trail_length,
                                particle_system.emitter_radius,
                                particle_system.emitter_height, rng, next_id)
    IN  /\ particle_count' = count
        /\ particle_system' = made.self
        /\ rng' = made.rng
        /\ next_id' = made.next_id
        /\ UNCHANGED <<trail_length, paused, attractor_active, attractor, last_time>>

\* ParticleSimulation.change_particle_count(delta)
change_particle_count(delta) ==
    LET count == Max(min_particles, Min(max_particles, particle_count + delta))
        made  == ParticleSystem(count, trail_length,
                                particle_system.emitter_radius,
                                particle_system.emitter_height, rng, next_id)
    IN  /\ particle_count' = count
        /\ particle_system' = made.self
        /\ rng' = made.rng
        /\ next_id' = made.next_id
        /\ UNCHANGED <<trail_length, paused, attractor_active, attractor, last_time>>

\* change_trail_length that leaves the trimming to the next update
change_trail_length_lazy(delta) ==
    LET length == Max(min_trail_length, Min(max_trail_length, trail_length + delta))
    IN  /\ trail_length' = length
        /\ particle_system' = [particle_system EXCEPT !.trail_length = length]
        /\ UNCHANGED <<particle_count, paused, attractor_active, attractor,
                       last_time, rng, next_id>>

\* ParticleSimulation.change_trail_length(delta)
change_trail_length(delta) ==
    LET length == Max(min_trail_length, Min(max_trail_length, trail_length + delta))
    IN  /\ trail_length' = length
        /\ particle_system' =
              [particle_system EXCEPT
                 !.trail_length = length,
                 !.particles = [i \in 1..Len(particle_system.particles) |->
                                  reset_trail(particle_system.particles[i], length)]]
        /\ UNCHANGED <<particle_count, paused, attractor_active, attractor,
                       last_time, rng, next_id>>

\* the attractor passed whatever the flag says
ActiveField_always == attractor

\* the field ParticleSimulation.update passes to the pool: the attractor
\* while attractor_active, None otherwise
ActiveField == IF attractor_active THEN attractor ELSE None

\* ParticleSimulation.update without its test of the pause flag
SimulationUpdate_unpaused(dt) ==
    LET done == update(particle_system, dt, ActiveField, rng, next_id)
    IN  /\ particle_system' = done.self
        /\ rng' = done.rng
        /\ next_id' = done.next_id

\* ParticleSimulation.update(dt)
SimulationUpdate(dt) ==
    IF paused
    THEN UNCHANGED <<particle_system, rng, next_id>>
    ELSE LET done == update(particle_system, dt, ActiveField, rng, next_id)
         IN  /\ particle_system' = done.self
             /\ rng' = done.rng
             /\ next_id' = done.next_id

\* the time step idle() computes from the elapsed milliseconds
IdleDt(elapsed) == Min((elapsed * FP) \div 1000, 50)

\* idle(), the GLUT idle callback, called when `elapsed` milliseconds have
\* passed since the last call
IdleStep(elapsed) ==
    /\ last_time' = last_time + elapsed
    /\ SimulationUpdate(IdleDt(elapsed))
    /\ call' = Call("idle", IdleDt(elapsed), ActiveField, elapsed, 0)
    /\ UNCHANGED <<particle_count, trail_length, paused, attractor_active,
                   attractor>>

\* idle() called after one of `elapsing` milliseconds, while fewer than
\* `limit` callbacks have run
Idle(elapsing, limit) ==
    \E elapsed \in elapsing :
        /\ calls < limit
        /\ IdleStep(elapsed)
        /\ calls' = calls + 1

\* ParticleSimulation.keyboard(key, x, y) for one of `keys`.  The keys h, e
\* and a toggle flags only the renderer reads, which the model does not hold.
Keyboard(keys, limit) ==
    \E key \in keys :
        /\ calls < limit
        /\ paused' = IF key = "p" THEN ~paused ELSE paused
        /\ attractor_active' = IF key = " " THEN ~attractor_active
                                            ELSE attractor_active
        /\ IF key = "r"
           THEN LET made == reset(particle_system, rng, next_id)
                IN  /\ particle_system' = made.self
                    /\ rng' = made.rng
                    /\ next_id' = made.next_id
           ELSE UNCHANGED <<particle_system, rng, next_id>>
        /\ call' = Call("keyboard", 0, None, key, 0)
        /\ calls' = calls + 1
        /\ UNCHANGED <<particle_count, trail_length, attractor, last_time>>

\* ParticleSimulation.special_keys(key, x, y) for one of `keys`
SpecialKeys(keys, limit) ==
    \E key \in keys :
        /\ calls < limit
        /\ CASE key = "UP"    -> change_particle_count(50)
             [] key = "DOWN"  -> change_particle_count(-50)
             [] key = "RIGHT" -> change_trail_length(1)
             [] key = "LEFT"  -> change_trail_length(-1)
        /\ call' = Call("special_keys", 0, None, key, 0)
        /\ calls' = calls + 1

\* milliseconds that may pass between two idle() calls: none, less than
\* the cap on dt, more than the cap
Elapsed == {0, 20, 70}

Keys == {"h", "p", " ", "r"}

ArrowKeys == {"UP", "DOWN", "RIGHT", "LEFT"}

---------------------------------------------------------------------------
(* Spec: the application, every callback enabled.                           *)

\* states of the random generator the application may start from
AppSeeds == {0}

Init ==
    /\ \E seed \in AppSeeds : SimulationInit(seed)
    /\ call = NoCall
    /\ calls = 0

Next ==
    \/ Idle(Elapsed, MaxCalls)
    \/ Keyboard(Keys, MaxCalls)
    \/ SpecialKeys(ArrowKeys, MaxCalls)

Spec == Init /\ [][Next]_vars

---------------------------------------------------------------------------
(* SpecFrames: the application left alone.  No key is pressed; only idle()  *)
(* runs, after no time or after more than the cap on dt, for MaxFrames      *)
(* frames of 50 ms: long enough for particles to live out their lifetime.   *)

Frame ==
    \E elapsed \in {0, 70} :
        /\ last_time + elapsed <= 70 * MaxFrames
        /\ IdleStep(elapsed)
        /\ UNCHANGED calls

NextFrames == Frame

SpecFrames == Init /\ [][NextFrames]_vars

---------------------------------------------------------------------------
(* SpecPool: the application with the callbacks that change the pool and    *)
(* the trails: idle() after a long frame, the reset key, the arrow keys.    *)

NextPool ==
    \/ Idle({70}, MaxPoolCalls)
    \/ Keyboard({"r"}, MaxPoolCalls)
    \/ SpecialKeys(ArrowKeys, MaxPoolCalls)

SpecPool == Init /\ [][NextPool]_vars

---------------------------------------------------------------------------
(* SpecPause: the application with idle(), after no time, a short frame or  *)
(* a long one, and the pause key.                                           *)

NextPause ==
    \/ Idle(Elapsed, MaxPauseCalls)
    \/ Keyboard({"p"}, MaxPauseCalls)

SpecPause == Init /\ [][NextPause]_vars

---------------------------------------------------------------------------
(* SpecCount: the controller with change_particle_count called directly,    *)
(* with deltas inside and outside what the limits allow, between frames     *)
(* and presses of the LEFT key.                                             *)

Deltas == {-500, -50, 1, 50, 500}

\* simulation.change_particle_count(delta)
ChangeCount ==
    \E delta \in Deltas :
        /\ calls < MaxCountCalls
        /\ change_particle_count(delta)
        /\ call' = Call("change_particle_count", 0, None, delta, 0)
        /\ calls' = calls + 1

NextCount ==
    \/ ChangeCount
    \/ Idle({70}, MaxCountCalls)
    \/ SpecialKeys({"LEFT"}, MaxCountCalls)

SpecCount == Init /\ [][NextCount]_vars

---------------------------------------------------------------------------
(* SpecTrail: the controller with change_trail_length called directly, with *)
(* deltas inside and outside what the limits allow, between frames.         *)

TrailDeltas == {-10, -3, -1, 10}

\* simulation.change_trail_length(delta)
ChangeTrail ==
    \E delta \in TrailDeltas :
        /\ calls < MaxTrailCalls
        /\ change_trail_length(delta)
        /\ call' = Call("change_trail_length", 0, None, delta, 0)
        /\ calls' = calls + 1

NextTrail ==
    \/ ChangeTrail
    \/ Idle({20, 70}, MaxTrailCalls)

SpecTrail == Init /\ [][NextTrail]_vars

---------------------------------------------------------------------------
(* SpecControl: the application with every callback that acts on the        *)
(* simulation: idle() after a long frame, the pause, attractor and reset    *)
(* keys, the four arrow keys.                                               *)

NextControl ==
    \/ Idle({70}, MaxControlCalls)
    \/ Keyboard({"p", " ", "r"}, MaxControlCalls)
    \/ SpecialKeys(ArrowKeys, MaxControlCalls)

SpecControl == Init /\ [][NextControl]_vars

---------------------------------------------------------------------------
(* SpecForce: PlaneAttractor on its own.  An attractor is constructed from  *)
(* arguments drawn from small sets, then asked for the force at positions   *)
(* on, near, at the range of and beyond its plane.                          *)

\* a ParticleSystem object that holds nothing (the specifications that do
\* not use one leave it so)
NoSystem ==
    [count |-> 0, trail_length |-> 1, emitter_radius |-> 1000,
     emitter_height |-> 2000, particles |-> <<>>]

PlanePoints == {<<0, -5000, 0>>, <<0, 0, 0>>, <<1000, 2000, -3000>>}

PlaneNormals == {<<0, 1000, 0>>, <<0, -2000, 0>>, <<1000, 0, 0>>, <<0, 0, 3000>>}

Strengths == {500, 1000}

Ranges == {-2000, 0, 4000, 8000}

\* positions probed: every axis at -13, -9, -5, -4, -1, 0, 2, 3, 4, 10
ProbePositions ==
    LET c == {-13000, -9000, -5000, -4000, -1000, 0, 2000, 3000, 4000, 10000}
    IN  {<<x, x, x>> : x \in c} \cup {<<0, y, 0>> : y \in c}
          \cup {<<1000, y, -3000>> : y \in c}

InitForce ==
    /\ \E position \in PlanePoints, normal \in PlaneNormals,
          strength \in Strengths, range \in Ranges :
          attractor = PlaneAttractor(position, normal, strength, range)
    /\ particle_system = NoSystem
    /\ particle_count = 0
    /\ trail_length = 1
    /\ paused = FALSE
    /\ attractor_active = TRUE
    /\ last_time = 0
    /\ rng = 0
    /\ next_id = 1
    /\ call = NoCall
    /\ calls = 0

\* attractor.get_force(position)
GetForce ==
    \E position \in ProbePositions :
        /\ call' = Call("get_force", 0, None, position,
                        get_force(attractor, position))
        /\ UNCHANGED <<particle_count, trail_length, paused, attractor_active,
                       particle_system, attractor, last_time, rng, next_id, calls>>

NextForce == GetForce

SpecForce == InitForce /\ [][NextForce]_vars

---------------------------------------------------------------------------
(* SpecSystem: a ParticleSystem on its own, as a caller of the class may    *)
(* use it: constructed with a count and a trail length (the other          *)
(* arguments at their defaults), then updated with time steps up to 100     *)
(* seconds, with and without a force field, and reset.                      *)

\* the attractor main.py constructs
MainAttractor == PlaneAttractor(<<0, -5000, 0>>, <<0, 1000, 0>>, 500, 8000)

\* time steps passed to ParticleSystem.update: none, a frame's, the
\* shortest lifetime, longer than any lifetime
TimeSteps == {0, 50, 3000, 100000}

InitSystem ==
    /\ \E count \in 1..MaxCount, trail_len \in 1..MaxTrailArg, seed \in 0..MaxSeed :
          LET made == ParticleSystem(count, trail_len, 1000, 2000, seed, 1)
          IN  /\ particle_system = made.self
              /\ rng = made.rng
              /\ next_id = made.next_id
              /\ particle_count = count
              /\ trail_length = trail_len
    /\ attractor = MainAttractor
    /\ paused = FALSE
    /\ attractor_active = TRUE
    /\ last_time = 0
    /\ call = NoCall
    /\ calls = 0

\* particle_system.update(dt, attractor) and particle_system.update(dt)
SystemUpdate ==
    \E dt \in TimeSteps, field \in {attractor, None} :
        /\ calls < MaxSteps
        /\ LET done == update(particle_system, dt, field, rng, next_id)
           IN  /\ particle_system' = done.self
               /\ rng' = done.rng
               /\ next_id' = done.next_id
        /\ call' = Call("update", dt, field, 0, 0)
        /\ calls' = calls + 1
        /\ UNCHANGED <<particle_count, trail_length, paused, attractor_active,
                       attractor, last_time>>

\* particle_system.reset()
SystemReset ==
    /\ calls < MaxSteps
    /\ LET made == reset(particle_system, rng, next_id)
       IN  /\ particle_system' = made.self
           /\ rng' = made.rng
           /\ next_id' = made.next_id
    /\ call' = Call("reset", 0, None, 0, 0)
    /\ calls' = calls + 1
    /\ UNCHANGED <<particle_count, trail_length, paused, attractor_active,
                   attractor, last_time>>

NextSystem == SystemUpdate \/ SystemReset

SpecSystem == InitSystem /\ [][NextSystem]_vars

---------------------------------------------------------------------------
(* SpecParticle: a Particle on its own, held as the one particle of an      *)
(* otherwise unused pool: constructed, then updated (its trail growing by   *)
(* one entry per call, untrimmed) and trimmed with reset_trail.             *)

InitParticle ==
    /\ \E position \in {<<1000, 0, 0>>, <<0, -4000, 2000>>},
          velocity \in {<<500, 0, 0>>, <<0, -1000, 707>>},
          life \in {min_lifetime, max_lifetime} :
          particle_system =
             [NoSystem EXCEPT
                !.count = 1,
                !.particles = <<Particle(1, position, velocity, min_size,
                                         <<300, 1000, 650, FullAlpha>>,
                                         life, life)>>]
    /\ attractor = MainAttractor
    /\ particle_count = 1
    /\ trail_length = 1
    /\ paused = FALSE
    /\ attractor_active = TRUE
    /\ last_time = 0
    /\ rng = 0
    /\ next_id = 2
    /\ call = NoCall
    /\ calls = 0

\* particle.update(dt, attractor) and particle.update(dt)
TrailUpdate ==
    \E field \in {attractor, None} :
        /\ calls < MaxParticleCalls
        /\ particle_system' =
              [particle_system EXCEPT
                 !.particles[1] = ParticleUpdate(particle_system.particles[1],
                                                 50, field)]
        /\ call' = Call("Particle.update", 50, field, 0, 0)
        /\ calls' = calls + 1
        /\ UNCHANGED <<particle_count, trail_length, paused, attractor_active,
                       attractor, last_time, rng, next_id>>

\* particle.reset_trail(max_length)
TrailReset ==
    \E max_length \in 0..MaxLength :
        /\ calls < MaxParticleCalls
        /\ particle_system' =
              [particle_system EXCEPT
                 !.particles[1] = reset_trail(particle_system.particles[1],
                                              max_length)]
        /\ call' = Call("reset_trail", 0, None, max_length, 0)
        /\ calls' = calls + 1
        /\ UNCHANGED <<particle_count, trail_length, paused, attractor_active,
                       attractor, last_time, rng, next_id>>

NextParticle == TrailUpdate \/ TrailReset

SpecParticle == InitParticle /\ [][NextParticle]_vars

---------------------------------------------------------------------------
(* Claims about PlaneAttractor.get_force, under SpecForce.                  *)

\* the force magnitude the linear falloff gives at signed distance d
Falloff(self, d) == FMul(self.strength, FP - FDiv(Abs(d), self.range))

\* C7: for a point exactly on the attractor plane (signed distance 0) of an
\* attractor with a positive range, get_force returns a force whose
\* magnitude is strength.
C7_OnPlaneMagnitudeIsStrength ==
    (/\ call.op = "get_force"
     /\ attractor.range > 0
     /\ Distance(attractor, call.arg) = 0)
    => Norm(call.result) = attractor.strength

\* C8: for a position at signed distance d # 0 from the plane of an
\* attractor with range > 0, get_force returns the zero vector when
\* |d| >= range and otherwise the vector along -sign(d) * normal whose
\* magnitude is strength * (1 - |d| / range); no position farther from the
\* plane gets a larger magnitude; and the call leaves the attractor as it
\* was.
C8_ForceOffPlane ==
    [][(/\ call'.op = "get_force"
        /\ attractor.range > 0
        /\ Distance(attractor, call'.arg) # 0)
       => LET d     == Distance(attractor, call'.arg)
              m     == Falloff(attractor, d)
              force == call'.result
          IN  /\ attractor' = attractor
              /\ Abs(d) >= attractor.range => force = Zero3
              /\ Abs(d) < attractor.range =>
                    /\ force = <<-Sign(d) * FMul(attractor.normal[1], m),
                                 -Sign(d) * FMul(attractor.normal[2], m),
                                 -Sign(d) * FMul(attractor.normal[3], m)>>
                    /\ Norm(force) = m
                    /\ Sign(Dot(force, attractor.normal)) = -Sign(d) * Sign(m)
              /\ \A q \in ProbePositions :
                    Abs(Distance(attractor, q)) >= Abs(d)
                    => Norm(get_force(attractor, q)) <= Norm(force)]_vars

\* C8's case: a force was asked for strictly inside the range, off the
\* plane, and a non-zero force came back.
C8_Witness ==
    /\ call.op = "get_force"
    /\ attractor.range > 0
    /\ Distance(attractor, call.arg) # 0
    /\ Abs(Distance(attractor, call.arg)) < attractor.range
    /\ call.result # Zero3

\* C9: an attractor constructed with a zero or negative range exerts no
\* force anywhere: get_force returns the (finite) zero vector for every
\* position, points on the plane included.
C9_NoInfluenceWithoutRange ==
    (call.op = "get_force" /\ attractor.range <= 0) => call.result = Zero3

---------------------------------------------------------------------------
(* Claims about the pool of a ParticleSystem, under SpecSystem.             *)

\* the particles of the pool
particles == particle_system.particles

\* two fractions are the same number
RatEq(a, b) == a.n * b.d = b.n * a.d

\* a particle as create_particle() returns it: at full life, opaque, its
\* trail holding its position only
Fresh(p) ==
    /\ p.lifetime = p.max_lifetime
    /\ RatEq(p.color[4], FullAlpha)
    /\ p.trail = <<p.position>>

\* C1: across any sequence of update() and reset() calls on a ParticleSystem
\* constructed with a given count, the pool holds exactly count particles.
C1_PoolSizeIsCount ==
    /\ particle_system.count = particle_count
    /\ Len(particles) = particle_system.count

\* C1's case: an update has just replaced an expired particle (only a
\* replacement is at full life after a time step > 0).
C1_Witness ==
    /\ call.op = "update"
    /\ call.dt > 0
    /\ \E i \in 1..Len(particles) : Fresh(particles[i])
    /\ Len(particles) = particle_system.count

\* C2: after update(dt, field) every slot whose particle had lifetime <= dt
\* holds a particle created in this pass, at full life and not aged; every
\* other slot holds the particle it held before; and the pool never holds a
\* particle with lifetime <= 0 between calls.
C2_ExpiredAreReplacedInPass ==
    /\ [](\A i \in 1..Len(particles) : particles[i].lifetime > 0)
    /\ [][call'.op = "update" =>
            /\ Len(particles') = Len(particles)
            /\ \A i \in 1..Len(particles) :
                  LET before == particles[i]
                      after  == particles'[i]
                  IN  IF before.lifetime <= call'.dt
                      THEN /\ after.id >= next_id
                           /\ Fresh(after)
                      ELSE /\ after.id = before.id
                           /\ after.lifetime = before.lifetime - call'.dt]_vars

\* C2's case: an update whose time step equals the lifetime one particle had
\* left has replaced that particle and kept, aged, another.
C2_Witness ==
    /\ call.op = "update"
    /\ call.dt = min_lifetime
    /\ \E i, j \in 1..Len(particles) :
          /\ Fresh(particles[i])
          /\ particles[i].id = next_id - 1
          /\ particles[j].lifetime = particles[j].max_lifetime - call.dt

\* C4: every particle of the pool has alpha = lifetime / max_lifetime, a
\* value in (0, 1].
C4_AlphaIsLifeRatio ==
    \A i \in 1..Len(particles) :
        LET p     == particles[i]
            alpha == p.color[4]
        IN  /\ alpha.d > 0
            /\ alpha.n * p.max_lifetime = p.lifetime * alpha.d
            /\ 0 < alpha.n
            /\ alpha.n <= alpha.d

\* C4's case: an update with a time step > 0 has aged a particle that is
\* still in the pool, so its alpha is strictly between 0 and 1.
C4_Witness ==
    /\ call.op = "update"
    /\ call.dt > 0
    /\ \E i \in 1..Len(particles) :
          /\ particles[i].lifetime < particles[i].max_lifetime
          /\ particles[i].color[4].n < particles[i].color[4].d

\* C3: in every state between callbacks, every particle of the pool has a
\* trail of at least one and at most particle_system.trail_length entries.
C3_TrailWithinLength ==
    \A i \in 1..Len(particles) :
        /\ 1 <= Len(particles[i].trail)
        /\ Len(particles[i].trail) <= particle_system.trail_length

\* C3's case: a particle has been updated, 50 ms at a time, at least as often
\* as the trail length allows entries, so an untrimmed trail would hold one
\* entry more than the bound; its trail is exactly at the bound.
C3_Witness ==
    /\ call.op = "idle"
    /\ \E i \in 1..Len(particles) :
          /\ particles[i].max_lifetime - particles[i].lifetime
                >= 50 * particle_system.trail_length
          /\ Len(particles[i].trail) = particle_system.trail_length

\* the particles before and after a frame's update are the same particle
Retained(before, after) == after.id = before.id

\* C5 as stated: a particle's lifetime never exceeds its max_lifetime, which
\* is > 0 and fixed; every frame's update strictly decreases the lifetime of
\* a particle it retains, retains only particles with lifetime > 0, and
\* replaces the others with particles whose lifetime is their max_lifetime.
C5_LifetimeStrictlyDecreases ==
    /\ [](\A i \in 1..Len(particles) :
             /\ particles[i].lifetime <= particles[i].max_lifetime
             /\ particles[i].max_lifetime > 0)
    /\ [][(call'.op = "idle" /\ ~paused) =>
            \A i \in 1..Len(particles) :
               LET before == particles[i]
                   after  == particles'[i]
               IN  IF Retained(before, after)
                   THEN /\ after.max_lifetime = before.max_lifetime
                        /\ after.lifetime < before.lifetime
                        /\ after.lifetime > 0
                   ELSE /\ before.lifetime - call'.dt <= 0
                        /\ after.id >= next_id
                        /\ after.lifetime = after.max_lifetime]_vars

\* C5, amended: as above, but a frame's update never increases the lifetime
\* of a particle it retains, and strictly decreases it when the frame's time
\* step is > 0.
C5_LifetimeNeverIncreases ==
    /\ [](\A i \in 1..Len(particles) :
             /\ particles[i].lifetime <= particles[i].max_lifetime
             /\ particles[i].max_lifetime > 0)
    /\ [][(call'.op = "idle" /\ ~paused) =>
            \A i \in 1..Len(particles) :
               LET before == particles[i]
                   after  == particles'[i]
               IN  IF Retained(before, after)
                   THEN /\ after.max_lifetime = before.max_lifetime
                        /\ after.lifetime <= before.lifetime
                        /\ call'.dt > 0 => after.lifetime < before.lifetime
                        /\ after.lifetime > 0
                   ELSE /\ before.lifetime - call'.dt <= 0
                        /\ after.id >= next_id
                        /\ after.lifetime = after.max_lifetime]_vars

\* C5's case: a frame with time step 0 has run on a pool that holds a
\* particle created to replace an expired one and a particle of the first
\* pool that has aged.
C5_Witness ==
    /\ call.op = "idle"
    /\ call.dt = 0
    /\ \E i, j \in 1..Len(particles) :
          /\ particles[i].id > particle_count
          /\ particles[j].id <= particle_count
          /\ particles[j].lifetime < particles[j].max_lifetime

\* C6: a frame's update moves every particle it retains by one semi-implicit
\* Euler step: the velocity gains get_force(position before) * dt while the
\* attractor is active and is unchanged while it is not, and the position
\* advances by the new velocity * dt.  No callback changes the attractor.
C6_SemiImplicitEuler ==
    /\ [][attractor' = attractor]_vars
    /\ [][(call'.op = "idle" /\ ~paused) =>
            \A i \in 1..Len(particles) :
               LET before == particles[i]
                   after  == particles'[i]
                   dt     == call'.dt
               IN  Retained(before, after) =>
                      /\ after.velocity =
                            IF attractor_active
                            THEN VAdd(before.velocity,
                                      VScale(get_force(attractor,
                                                       before.position), dt))
                            ELSE before.velocity
                      /\ after.position =
                            VAdd(before.position, VScale(after.velocity, dt))]_vars

\* C6's case: the attractor has been switched off and a frame with a time
\* step > 0 has moved the particles without it.
C6_Witness ==
    /\ call.op = "idle"
    /\ call.dt > 0
    /\ ~attractor_active
    /\ call.field = None
    /\ ~paused
    /\ \E i \in 1..Len(particles) :
          /\ particles[i].lifetime = particles[i].max_lifetime - call.dt
          /\ particles[i].velocity # Zero3

\* C10: reset_trail(k) leaves the last min(previous length, k) entries of
\* the trail in their order, leaves a trail within the bound as it is,
\* changes nothing when repeated, and changes no other field.
C10_ResetTrailKeepsLastK ==
    [][call'.op = "reset_trail" =>
         LET k      == call'.arg
             before == particles[1]
             after  == particles'[1]
             n      == Len(before.trail)
             m      == Len(after.trail)
         IN  /\ m = Min(n, k)
             /\ \A j \in 1..m : after.trail[j] = before.trail[n - m + j]
             /\ n <= k => after.trail = before.trail
             /\ reset_trail(after, k) = after
             /\ [after EXCEPT !.trail = before.trail] = before]_vars

\* C11: a frame that runs while the pause flag is set changes nothing of the
\* particle system (no particle is moved, aged, recoloured or replaced, no
\* trail grows); a frame that runs while it is clear ages every particle it
\* retains by the time since the previous idle() call alone, capped at 50 ms.
C11_PausedUpdateIsNoOp ==
    /\ [][(call'.op = "idle" /\ paused) =>
             /\ particle_system' = particle_system
             /\ rng' = rng
             /\ next_id' = next_id]_vars
    /\ [][(call'.op = "idle" /\ ~paused) =>
             \A i \in 1..Len(particles) :
                Retained(particles[i], particles'[i]) =>
                   particles'[i].lifetime =
                      particles[i].lifetime - Min(last_time' - last_time, 50)]_vars

\* C11's case: time has passed in frames that ran while paused, the flag has
\* been cleared, and the frame after that has aged a particle of the first
\* pool by its own time step and no more.
C11_Witness ==
    /\ call.op = "idle"
    /\ ~paused
    /\ call.dt > 0
    /\ last_time > call.arg
    /\ calls >= 4
    /\ \E i \in 1..Len(particles) :
          /\ particles[i].id <= particle_count
          /\ particles[i].max_lifetime - particles[i].lifetime = call.dt

\* C12: particle_count is always within [min_particles, max_particles];
\* every change_particle_count(delta) sets it to particle_count + delta
\* clamped to that interval and replaces the particle system by one whose
\* pool holds exactly particle_count particles, all newly created, with the
\* emitter radius and height it had and the controller's trail length.
C12_CountClampedPoolRebuilt ==
    /\ [](/\ min_particles <= particle_count
          /\ particle_count <= max_particles)
    /\ [][call'.op = "change_particle_count" =>
             /\ particle_count' =
                   Max(min_particles,
                       Min(max_particles, particle_count + call'.arg))
             /\ particle_system'.count = particle_count'
             /\ Len(particles') = particle_count'
             /\ \A i \in 1..Len(particles') :
                   /\ Fresh(particles'[i])
                   /\ particles'[i].id >= next_id
             /\ particle_system'.emitter_radius = particle_system.emitter_radius
             /\ particle_system'.emitter_height = particle_system.emitter_height
             /\ particle_system'.trail_length = trail_length
             /\ trail_length' = trail_length]_vars

\* C12's case: after a frame has aged the pool and the trail length has been
\* lowered, a request far below the lower limit has been clamped to it and
\* has rebuilt the pool.
C12_Witness ==
    /\ call.op = "change_particle_count"
    /\ call.arg = -500
    /\ particle_count = min_particles
    /\ last_time > 0
    /\ particle_system.trail_length = 3
    /\ Len(particles) = min_particles

\* C13: trail_length is always within [min_trail_length, max_trail_length]
\* and equal to particle_system.trail_length; every change_trail_length(delta)
\* sets it to trail_length + delta clamped to that interval and leaves, in
\* the same call, every particle with the most recent trail_length entries
\* of its trail (all of them when there are fewer) and every other field of
\* the particle and of the pool as it was.
C13_TrailLengthClampedTrailsCut ==
    /\ [](/\ min_trail_length <= trail_length
          /\ trail_length <= max_trail_length
          /\ particle_system.trail_length = trail_length)
    /\ [][call'.op = "change_trail_length" =>
             /\ trail_length' =
                   Max(min_trail_length,
                       Min(max_trail_length, trail_length + call'.arg))
             /\ Len(particles') = Len(particles)
             /\ \A i \in 1..Len(particles) :
                   LET before == particles[i]
                       after  == particles'[i]
                       n      == Len(before.trail)
                       m      == Min(n, trail_length')
                   IN  /\ after.trail = SubSeq(before.trail, n - m + 1, n)
                       /\ after.trail[m] = after.position
                       /\ [after EXCEPT !.trail = before.trail] = before
             /\ particle_system'.count = particle_system.count
             /\ particle_system'.emitter_radius = particle_system.emitter_radius
             /\ particle_system'.emitter_height = particle_system.emitter_height
             /\ particle_count' = particle_count
             /\ next_id' = next_id]_vars

\* C13's case: three frames have filled a particle's trail to four entries
\* and a request has taken the trail length from 4 to 1: the trail holds the
\* particle's position and nothing else.
C13_Witness ==
    /\ call.op = "change_trail_length"
    /\ call.arg = -3
    /\ trail_length = 1
    /\ \E i \in 1..Len(particles) :
          /\ particles[i].max_lifetime - particles[i].lifetime = 150
          /\ particles[i].trail = <<particles[i].position>>
          /\ particles[i].velocity # Zero3

\* C14: in every state between callbacks, every particle of the pool has a
\* non-empty trail whose last entry is the particle's position.
C14_TrailEndsAtPosition ==
    \A i \in 1..Len(particles) :
        LET p == particles[i]
        IN  /\ Len(p.trail) >= 1
            /\ p.trail[Len(p.trail)] = p.position

\* C14's case: a frame has moved a particle whose trail was full, so the trail
\* has been appended to and cut: it holds trail_length entries, the one
\* before the last being another position than the particle's.
C14_Witness ==
    /\ call.op = "idle"
    /\ call.dt > 0
    /\ ~paused
    /\ \E i \in 1..Len(particles) :
          LET p == particles[i]
              n == Len(p.trail)
          IN  /\ n >= 2
              /\ n = particle_system.trail_length
              /\ p.max_lifetime - p.lifetime >= 50 * n
              /\ p.trail[n - 1] # p.position

=============================================================================
